---- MODULE Spec2Model ----
(***************************************************************************)
(* A model of the PyPrep chess engine: the Board (placement, legality of a *)
(* single move, move execution with simple promotion) and the ChessGame    *)
(* (turn sequencing, history, coordinate notation, batch loading), and the *)
(* command line's main with its interactive loop.                          *)
(***************************************************************************)
EXTENDS Integers, Sequences, FiniteSets, TLC

VARIABLES board, turn, history, last, calls, applied, cli

vars == <<board, turn, history, last, calls, applied, cli>>

----------------------------------------------------------------------------
(* Bounds of the model *)

\* Squares handed to the Board as inputs lie on files 0..MaxFile (all ranks).
MaxFile == 2
\* Square names handed to the ChessGame as inputs lie on files a..(MaxGameFile).
MaxGameFile == 1
\* Number of ChessGame calls made after the game was set up.
MaxCalls == 2
\* Number of lines the command line's loop reads before its input ends.
MaxLines == 3
\* Longest list of notation strings handed to load_moves.
MaxBatch == 2

----------------------------------------------------------------------------
(* board.py: constants and value types *)

BOARD_SIZE == 8

FILES == <<"a", "b", "c", "d", "e", "f", "g", "h">>

\* The literal "12345678" of parse_square.
RANK_DIGITS == <<"1", "2", "3", "4", "5", "6", "7", "8">>

WHITE == "white"
BLACK == "black"
Color == {WHITE, BLACK}

opponent(c) == IF c = WHITE THEN BLACK ELSE WHITE

KING == "K"
QUEEN == "Q"
ROOK == "R"
BISHOP == "B"
KNIGHT == "N"
PAWN == "P"
PieceType == {KING, QUEEN, ROOK, BISHOP, KNIGHT, PAWN}

Piece(color, kind) == [color |-> color, kind |-> kind]

Pieces == {Piece(c, k) : c \in Color, k \in PieceType}

\* Python's None where an Optional[Piece] is expected.
None == [color |-> "none", kind |-> "none"]

\* Python's None where an Optional[PieceType] is expected.
NoPromotion == "none"

Abs(n) == IF n < 0 THEN -n ELSE n

Max(a, b) == IF a >= b THEN a ELSE b

Sign(n) == IF n > 0 THEN 1 ELSE IF n < 0 THEN -1 ELSE 0

in_bounds(square) ==
    /\ 0 <= square[1] /\ square[1] < BOARD_SIZE
    /\ 0 <= square[2] /\ square[2] < BOARD_SIZE

Squares == {<<f, r>> : f \in 0..(BOARD_SIZE - 1), r \in 0..(BOARD_SIZE - 1)}

\* Board.__init__: the empty placement.
EmptyBoard == [sq \in Squares |-> None]

back_rank == <<ROOK, KNIGHT, BISHOP, QUEEN, KING, BISHOP, KNIGHT, ROOK>>

\* Board.reset / Board.from_initial_position.
InitialPosition ==
    [sq \in Squares |->
        IF sq[2] = 0 THEN Piece(WHITE, back_rank[sq[1] + 1])
        ELSE IF sq[2] = 1 THEN Piece(WHITE, PAWN)
        ELSE IF sq[2] = 6 THEN Piece(BLACK, PAWN)
        ELSE IF sq[2] = 7 THEN Piece(BLACK, back_rank[sq[1] + 1])
        ELSE None]

\* Board.get_piece: dict.get, None for a square that is not a key.
get_piece(b, square) == IF square \in DOMAIN b THEN b[square] ELSE None

\* A set_piece that leaves the square as it is when handed None.
SetPieceKeepingOnNone(b, square, piece) ==
    IF piece = None THEN b ELSE [b EXCEPT ![square] = piece]

\* Board.set_piece: pop on None, assignment otherwise.
set_piece(b, square, piece) == [b EXCEPT ![square] = piece]

----------------------------------------------------------------------------
(* board.py: legality *)

\* The while loop of _is_path_clear from `current`: the squares visited so far
\* are counted in n. The walk leaves the grid only when it can never meet end.
RECURSIVE PathWalk(_, _, _, _, _, _)
PathWalk(b, current, end, step_file, step_rank, n) ==
    IF current = end THEN [clear |-> TRUE, steps |-> n, diverges |-> FALSE]
    ELSE IF ~in_bounds(current) THEN [clear |-> TRUE, steps |-> n, diverges |-> TRUE]
    ELSE IF get_piece(b, current) # None
         THEN [clear |-> FALSE, steps |-> n, diverges |-> FALSE]
    ELSE PathWalk(b, <<current[1] + step_file, current[2] + step_rank>>, end,
                  step_file, step_rank, n + 1)

PathWalkFrom(b, start, end) ==
    LET step_file == Sign(end[1] - start[1])
        step_rank == Sign(end[2] - start[2])
    IN  PathWalk(b, <<start[1] + step_file, start[2] + step_rank>>, end,
                 step_file, step_rank, 0)

\* A walk that also takes the destination square for part of the path.
PathClearIncludingEnd(b, start, end) ==
    PathWalkFrom(b, start, end).clear /\ get_piece(b, end) = None

_is_path_clear(b, start, end) == PathWalkFrom(b, start, end).clear

\* A pawn whose double step looks at the destination only.
PawnLegalJumping(b, piece, start, end) ==
    LET target == get_piece(b, end)
        file_delta == end[1] - start[1]
        rank_delta == end[2] - start[2]
        direction == IF piece.color = WHITE THEN 1 ELSE -1
        start_rank == IF piece.color = WHITE THEN 1 ELSE 6
    IN  IF file_delta = 0
        THEN IF rank_delta = direction THEN target = None
             ELSE IF rank_delta = 2 * direction /\ start[2] = start_rank
                  THEN target = None
             ELSE FALSE
        ELSE IF Abs(file_delta) = 1 /\ rank_delta = direction
             THEN target # None /\ target.color = opponent(piece.color)
        ELSE FALSE

\* A pawn that takes the piece of the other colour standing right ahead.
PawnLegalTakingAhead(b, piece, start, end) ==
    LET target == get_piece(b, end)
        file_delta == end[1] - start[1]
        rank_delta == end[2] - start[2]
        direction == IF piece.color = WHITE THEN 1 ELSE -1
        start_rank == IF piece.color = WHITE THEN 1 ELSE 6
    IN  IF file_delta = 0
        THEN IF rank_delta = direction
             THEN target = None \/ target.color = opponent(piece.color)
             ELSE IF rank_delta = 2 * direction /\ start[2] = start_rank
                  THEN /\ target = None
                       /\ get_piece(b, <<start[1], start[2] + direction>>) = None
             ELSE FALSE
        ELSE IF Abs(file_delta) = 1 /\ rank_delta = direction
             THEN target # None /\ target.color = opponent(piece.color)
        ELSE FALSE

\* The PAWN branch of is_legal_move.
pawn_legal(b, piece, start, end) ==
    LET target == get_piece(b, end)
        file_delta == end[1] - start[1]
        rank_delta == end[2] - start[2]
        direction == IF piece.color = WHITE THEN 1 ELSE -1
        start_rank == IF piece.color = WHITE THEN 1 ELSE 6
    IN  IF file_delta = 0
        THEN IF rank_delta = direction THEN target = None
             ELSE IF rank_delta = 2 * direction /\ start[2] = start_rank
                  THEN /\ target = None
                       /\ get_piece(b, <<start[1], start[2] + direction>>) = None
             ELSE FALSE
        ELSE IF Abs(file_delta) = 1 /\ rank_delta = direction
             THEN target # None /\ target.color = opponent(piece.color)
        ELSE FALSE

\* The KNIGHT and KING branches of is_legal_move.
knight_legal(file_delta, rank_delta) ==
    <<Abs(file_delta), Abs(rank_delta)>> \in {<<1, 2>>, <<2, 1>>}

king_legal(file_delta, rank_delta) ==
    Max(Abs(file_delta), Abs(rank_delta)) = 1

\* A queen that moves along ranks and files only.
SlidingLegalQueenAsRook(b, kind, start, end) ==
    LET file_delta == end[1] - start[1]
        rank_delta == end[2] - start[2]
    IN  IF kind = BISHOP
        THEN Abs(file_delta) = Abs(rank_delta) /\ _is_path_clear(b, start, end)
        ELSE (file_delta = 0 \/ rank_delta = 0) /\ _is_path_clear(b, start, end)

\* The BISHOP, ROOK and QUEEN branches of is_legal_move.
sliding_legal(b, kind, start, end) ==
    LET file_delta == end[1] - start[1]
        rank_delta == end[2] - start[2]
    IN  IF kind = BISHOP
        THEN Abs(file_delta) = Abs(rank_delta) /\ _is_path_clear(b, start, end)
        ELSE IF kind = ROOK
        THEN (file_delta = 0 \/ rank_delta = 0) /\ _is_path_clear(b, start, end)
        ELSE IF Abs(file_delta) = Abs(rank_delta) \/ file_delta = 0 \/ rank_delta = 0
             THEN _is_path_clear(b, start, end)
             ELSE FALSE

\* A legality test that does not look at the colour of the piece on end.
IsLegalMoveOntoFriend(b, piece, start, end) ==
    IF start = end THEN FALSE
    ELSE IF ~in_bounds(end) THEN FALSE
    ELSE IF piece.kind = PAWN THEN pawn_legal(b, piece, start, end)
    ELSE IF piece.kind = KNIGHT THEN knight_legal(end[1] - start[1], end[2] - start[2])
    ELSE IF piece.kind = KING THEN king_legal(end[1] - start[1], end[2] - start[2])
    ELSE IF piece.kind \in {BISHOP, ROOK, QUEEN} THEN sliding_legal(b, piece.kind, start, end)
    ELSE FALSE

\* A knight that is stopped by a piece on the square next to start, on the
\* longer leg toward end.
IsLegalMoveLameKnight(b, piece, start, end) ==
    LET file_delta == end[1] - start[1]
        rank_delta == end[2] - start[2]
        leg == IF Abs(file_delta) = 2 THEN <<start[1] + Sign(file_delta), start[2]>>
               ELSE <<start[1], start[2] + Sign(rank_delta)>>
    IN  IF start = end THEN FALSE
        ELSE IF ~in_bounds(end) THEN FALSE
        ELSE IF get_piece(b, end) # None /\ get_piece(b, end).color = piece.color THEN FALSE
        ELSE IF piece.kind = PAWN THEN pawn_legal(b, piece, start, end)
        ELSE IF piece.kind = KNIGHT
             THEN knight_legal(file_delta, rank_delta) /\ get_piece(b, leg) = None
        ELSE IF piece.kind = KING THEN king_legal(file_delta, rank_delta)
        ELSE IF piece.kind \in {BISHOP, ROOK, QUEEN}
             THEN sliding_legal(b, piece.kind, start, end)
        ELSE FALSE

is_legal_move(b, piece, start, end) ==
    IF start = end THEN FALSE
    ELSE IF ~in_bounds(end) THEN FALSE
    ELSE IF get_piece(b, end) # None /\ get_piece(b, end).color = piece.color THEN FALSE
    ELSE IF piece.kind = PAWN THEN pawn_legal(b, piece, start, end)
    ELSE IF piece.kind = KNIGHT THEN knight_legal(end[1] - start[1], end[2] - start[2])
    ELSE IF piece.kind = KING THEN king_legal(end[1] - start[1], end[2] - start[2])
    ELSE IF piece.kind \in {BISHOP, ROOK, QUEEN} THEN sliding_legal(b, piece.kind, start, end)
    ELSE FALSE

----------------------------------------------------------------------------
(* board.py: move execution *)

\* A walk started for a sliding piece whatever the deltas are.
CallsPathClearBeforeGeometry(b, piece, start, end) ==
    /\ start # end
    /\ in_bounds(end)
    /\ ~(get_piece(b, end) # None /\ get_piece(b, end).color = piece.color)
    /\ piece.kind \in {BISHOP, ROOK, QUEEN}

\* The calls of is_legal_move that reach a call of _is_path_clear: `and` and
\* `if` evaluate the test on the deltas first, the three early returns come
\* before.
calls_is_path_clear(b, piece, start, end) ==
    LET file_delta == end[1] - start[1]
        rank_delta == end[2] - start[2]
    IN  /\ start # end
        /\ in_bounds(end)
        /\ ~(get_piece(b, end) # None /\ get_piece(b, end).color = piece.color)
        /\ \/ piece.kind = BISHOP /\ Abs(file_delta) = Abs(rank_delta)
           \/ piece.kind = ROOK /\ (file_delta = 0 \/ rank_delta = 0)
           \/ /\ piece.kind = QUEEN
              /\ (Abs(file_delta) = Abs(rank_delta) \/ file_delta = 0 \/ rank_delta = 0)

\* The messages of the ValueErrors the Board raises.
ErrNoPieceAt == "No piece at square"
ErrIllegalMove == "Illegal move"
ErrOwnPiece == "Cannot capture own piece"
ErrPromotion == "Cannot promote to pawn or king"
ErrOutOfBounds == "Square out of bounds"

\* The outcome of a call on a Board: normal return or a raised ValueError,
\* and the placement the Board is left with.
Return(b) == [ok |-> TRUE, err |-> "", board |-> b]
Raise(b, message) == [ok |-> FALSE, err |-> message, board |-> b]

\* square_name raises inside the f-string of a message naming an
\* out-of-bounds square; the ValueError raised is then that one.
message_naming(squares, message) ==
    IF \A sq \in squares : in_bounds(sq) THEN message ELSE ErrOutOfBounds

\* A move that places the piece on end and leaves it on start as well.
RelocateKeepingStart(b, start, end, piece) == set_piece(b, end, piece)

\* "Execute move": set_piece(end, piece); set_piece(start, None).
relocate(b, start, end, piece) == set_piece(set_piece(b, end, piece), start, None)

\* promotion or PieceType.QUEEN
promoted_kind(promotion) == IF promotion # NoPromotion THEN promotion ELSE QUEEN

\* A promotion on the last rank only: a pawn landing on the first rank stays.
IsPromotionOnLastRankOnly(piece, end) ==
    piece.kind = PAWN /\ end[2] = BOARD_SIZE - 1

\* The pawn has landed on the first or the last rank.
is_promotion(piece, end) ==
    piece.kind = PAWN /\ (end[2] = 0 \/ end[2] = BOARD_SIZE - 1)

move_piece(b, start, end, promotion) ==
    LET piece == get_piece(b, start)
        target == get_piece(b, end)
        moved == relocate(b, start, end, piece)
        promoted == promoted_kind(promotion)
    IN  IF piece = None THEN Raise(b, message_naming({start}, ErrNoPieceAt))
        ELSE IF ~is_legal_move(b, piece, start, end)
             THEN Raise(b, message_naming({start, end}, ErrIllegalMove))
        ELSE IF target # None /\ target.color = piece.color THEN Raise(b, ErrOwnPiece)
        ELSE IF is_promotion(piece, end)
             THEN IF promoted = PAWN \/ promoted = KING
                  THEN Raise(moved, ErrPromotion)
                  ELSE Return(set_piece(moved, end, Piece(piece.color, promoted)))
        ELSE Return(moved)

----------------------------------------------------------------------------
(* The Board on its own: a placement is set up, then one call is made *)

\* No call made yet.
NoCall == [op |-> "none"]

\* The command line's main is not running.
NoMain == [pc |-> "none", prompt |-> "", printed |-> <<>>, returned |-> <<>>]

\* The in-bounds squares used as inputs of the Board's operations.
InputSquares == {sq \in Squares : sq[1] <= MaxFile}

\* Two squares off the grid, beyond the last rank and beside the first file.
OffBoardSquares == {<<0, BOARD_SIZE>>, <<-1, 0>>}

Promotions == PieceType \cup {NoPromotion}

\* move_piece reads its promotion argument only when the piece on start is a
\* pawn: every value is tried for a pawn, two values for anything else.
PromotionInputs(b, start) ==
    IF get_piece(b, start).kind = PAWN THEN Promotions ELSE {NoPromotion, KING}

\* Board.from_initial_position() or Board(), then one set_piece.
BoardInit ==
    /\ \E base \in {InitialPosition, EmptyBoard} :
       \E sq \in InputSquares : \E p \in Pieces \cup {None} :
            board = set_piece(base, sq, p)
    /\ turn = WHITE
    /\ history = <<>>
    /\ last = NoCall
    /\ calls = 0
    /\ applied = 0
    /\ cli = NoMain

MovePiece(start, end, promotion) ==
    LET res == move_piece(board, start, end, promotion)
    IN  /\ board' = res.board
        /\ last' = [op |-> "move_piece", ok |-> res.ok, err |-> res.err,
                    start |-> start, end |-> end, promotion |-> promotion,
                    piece |-> get_piece(board, start),
                    target |-> get_piece(board, end),
                    preBoard |-> board]
        /\ calls' = calls + 1
        /\ UNCHANGED <<turn, history, applied, cli>>

BoardNext ==
    last = NoCall /\
       \E start \in InputSquares \cup OffBoardSquares :
       \E end \in InputSquares \cup OffBoardSquares :
       \E promotion \in PromotionInputs(board, start) :
            MovePiece(start, end, promotion)

BoardSpec == BoardInit /\ [][BoardNext]_vars

\* A query of is_legal_move: the Board is read, never written.
IsLegalMove(piece, start, end) ==
    /\ last' = [op |-> "is_legal_move", piece |-> piece, start |-> start,
                end |-> end, result |-> is_legal_move(board, piece, start, end)]
    /\ calls' = calls + 1
    /\ UNCHANGED <<board, turn, history, applied, cli>>

LegalNext ==
    last = NoCall /\
       \E piece \in Pieces :
       \E start \in InputSquares :
       \E end \in InputSquares \cup OffBoardSquares :
            IsLegalMove(piece, start, end)

\* is_legal_move reads of the placement only which squares are occupied and
\* the colour of the piece on end: the placement set up differs from the
\* initial position or from the empty board in the occupancy of one square.
LegalInit ==
    /\ \E base \in {InitialPosition, EmptyBoard} :
       \E sq \in InputSquares : \E p \in {None, Piece(WHITE, ROOK), Piece(BLACK, ROOK)} :
            board = set_piece(base, sq, p)
    /\ turn = WHITE
    /\ history = <<>>
    /\ last = NoCall
    /\ calls = 0
    /\ applied = 0
    /\ cli = NoMain

LegalSpec == LegalInit /\ [][LegalNext]_vars

----------------------------------------------------------------------------
(* Properties of Board.move_piece (BoardSpec) *)

MoveCalled == last.op = "move_piece"

\* C1: a move_piece call that fails, for whatever reason, leaves the placement
\* exactly as it was before the call.
C1_MovePieceAtomicOnFailure ==
    (MoveCalled /\ ~last.ok) => board = last.preBoard

\* The kind a promoted pawn takes: the promotion given, QUEEN when none was.
PromotionKindOf(promotion) == IF promotion = NoPromotion THEN QUEEN ELSE promotion

\* C7: after a successful move_piece the start square is empty and the end
\* square holds the moved piece, or, for a pawn landing on rank-index 0 or 7,
\* a piece of the same colour and of the promotion kind (QUEEN by default).
C7_MoveRelocatesPiece ==
    (MoveCalled /\ last.ok) =>
        /\ board[last.start] = None
        /\ board[last.end] =
              IF last.piece.kind = PAWN /\ last.end[2] \in {0, 7}
              THEN Piece(last.piece.color, PromotionKindOf(last.promotion))
              ELSE last.piece

\* A pawn has moved onto the last rank and was promoted to the kind asked for.
C7_Witness ==
    /\ MoveCalled /\ last.ok
    /\ last.piece = Piece(WHITE, PAWN)
    /\ last.end[2] = 7
    /\ last.promotion = KNIGHT
    /\ board[last.end] = Piece(WHITE, KNIGHT)

----------------------------------------------------------------------------
(* Properties of Board.is_legal_move (LegalSpec) *)

LegalCalled == last.op = "is_legal_move"

\* The squares strictly between start and end on their common rank, file or
\* diagonal.
Between(start, end) ==
    LET n == Max(Abs(end[1] - start[1]), Abs(end[2] - start[2]))
    IN  {sq \in Squares : \E k \in 1..(n - 1) :
            /\ sq[1] * n = start[1] * n + k * (end[1] - start[1])
            /\ sq[2] * n = start[2] * n + k * (end[2] - start[2])}

OnDiagonal(start, end) == Abs(end[1] - start[1]) = Abs(end[2] - start[2])
OnRankOrFile(start, end) == end[1] = start[1] \/ end[2] = start[2]

GeometryMatches(kind, start, end) ==
    \/ kind \in {BISHOP, QUEEN} /\ OnDiagonal(start, end)
    \/ kind \in {ROOK, QUEEN} /\ OnRankOrFile(start, end)

Friendly(b, piece, end) == b[end] # None /\ b[end].color = piece.color

\* C8: a bishop, rook or queen move between two distinct squares of the board
\* is illegal whenever a square strictly between them on the line of travel is
\* occupied (by either colour); with matching geometry and no friendly piece
\* on the destination it is legal exactly when all those squares are empty.
C8_SlidingBlockedByAnyPiece ==
    (/\ LegalCalled
     /\ last.piece.kind \in {BISHOP, ROOK, QUEEN}
     /\ last.start # last.end
     /\ in_bounds(last.end)) =>
        /\ ((OnDiagonal(last.start, last.end) \/ OnRankOrFile(last.start, last.end))
            /\ \E sq \in Between(last.start, last.end) : board[sq] # None)
           => ~last.result
        /\ (GeometryMatches(last.piece.kind, last.start, last.end)
            /\ ~Friendly(board, last.piece, last.end))
           => (last.result <=> \A sq \in Between(last.start, last.end) : board[sq] = None)

\* A bishop is stopped by a piece of the other colour standing in its way,
\* the destination holding no piece of its own colour.
C8_Witness ==
    /\ LegalCalled
    /\ last.piece.kind = BISHOP
    /\ OnDiagonal(last.start, last.end)
    /\ in_bounds(last.end)
    /\ ~Friendly(board, last.piece, last.end)
    /\ \E sq \in Between(last.start, last.end) :
            board[sq] # None /\ board[sq].color # last.piece.color
    /\ ~last.result

KnightGeometry(start, end) ==
    {Abs(end[1] - start[1]), Abs(end[2] - start[2])} = {1, 2}

KingGeometry(start, end) ==
    /\ start # end
    /\ Abs(end[1] - start[1]) <= 1
    /\ Abs(end[2] - start[2]) <= 1

\* The occupancies tried on a square: empty, a white piece, a black piece.
Occupancies == {None, Piece(WHITE, ROOK), Piece(BLACK, ROOK)}

\* The squares of the rectangle spanned by start and end: those a piece
\* passes by or over on its way.
Spanned(start, end) ==
    {sq \in Squares :
        /\ (sq[1] - start[1]) * (sq[1] - end[1]) <= 0
        /\ (sq[2] - start[2]) * (sq[2] - end[2]) <= 0}

\* C9: for a knight or a king moving to a square of the board, the answer is
\* fixed by the deltas and by whether the destination holds a piece of the
\* same colour; no change of occupancy of a square on the way, the
\* destination apart, changes it.
C9_KnightKingNeverBlocked ==
    (/\ LegalCalled
     /\ last.piece.kind \in {KNIGHT, KING}
     /\ in_bounds(last.end)) =>
        /\ last.result =
              (/\ IF last.piece.kind = KNIGHT
                  THEN KnightGeometry(last.start, last.end)
                  ELSE KingGeometry(last.start, last.end)
               /\ ~Friendly(board, last.piece, last.end))
        /\ \A sq \in Spanned(last.start, last.end) \ {last.end} : \A p \in Occupancies :
              is_legal_move(set_piece(board, sq, p), last.piece, last.start, last.end)
                  = last.result

\* A knight jumps over occupied squares: both squares beside it toward the
\* destination are occupied and the move is legal.
C9_Witness ==
    /\ LegalCalled
    /\ last.piece.kind = KNIGHT
    /\ last.result
    /\ last.end[2] - last.start[2] = 2
    /\ board[<<last.start[1], last.start[2] + 1>>] # None
    /\ board[<<last.end[1], last.end[2] - 1>>] # None

\* C10: a pawn's straight two-step advance is legal only from its own starting
\* rank, in its own direction, with the intermediate and the destination
\* squares both empty.
C10_PawnDoubleStep ==
    (/\ LegalCalled
     /\ last.piece.kind = PAWN
     /\ last.end[1] = last.start[1]
     /\ Abs(last.end[2] - last.start[2]) = 2) =>
        LET white == last.piece.color = WHITE
            middle == <<last.start[1], (last.start[2] + last.end[2]) \div 2>>
        IN  last.result <=>
              /\ last.start[2] = (IF white THEN 1 ELSE 6)
              /\ last.end[2] = (IF white THEN 3 ELSE 4)
              /\ board[middle] = None
              /\ board[last.end] = None

\* A black pawn on its starting rank cannot advance two squares past a white
\* piece standing right in front of it, the destination being empty.
C10_Witness ==
    /\ LegalCalled
    /\ last.piece = Piece(BLACK, PAWN)
    /\ last.start[2] = 6
    /\ last.end = <<last.start[1], 4>>
    /\ board[<<last.start[1], 5>>] # None
    /\ board[<<last.start[1], 5>>].color = WHITE
    /\ board[last.end] = None
    /\ ~last.result

\* C11: leaving the straight two-step advance aside, a pawn move is legal
\* exactly when it is one step straight ahead onto an empty square or one step
\* diagonally ahead onto a square holding a piece of the other colour; every
\* other delta, backward and sideways moves included, is illegal.
C11_PawnSingleSteps ==
    (LegalCalled /\ last.piece.kind = PAWN) =>
        LET file_delta == last.end[1] - last.start[1]
            rank_delta == last.end[2] - last.start[2]
            ahead == IF last.piece.color = WHITE THEN 1 ELSE -1
            target == get_piece(board, last.end)
        IN  ~(file_delta = 0 /\ rank_delta = 2 * ahead) =>
              (last.result <=>
                 /\ in_bounds(last.end)
                 /\ rank_delta = ahead
                 /\ \/ file_delta = 0 /\ target = None
                    \/ /\ Abs(file_delta) = 1
                       /\ target # None
                       /\ target.color # last.piece.color)

\* A pawn does not take the piece of the other colour standing right ahead.
C11_Witness ==
    /\ LegalCalled
    /\ last.piece = Piece(WHITE, PAWN)
    /\ last.end = <<last.start[1], last.start[2] + 1>>
    /\ in_bounds(last.end)
    /\ board[last.end] # None
    /\ board[last.end].color = BLACK
    /\ ~last.result

\* C14: between two distinct squares, the second on the board, a queen's move
\* is legal exactly when the move is legal for a rook of its colour or for a
\* bishop of its colour.
C14_QueenIsRookOrBishop ==
    (/\ LegalCalled
     /\ last.piece.kind = QUEEN
     /\ last.start # last.end
     /\ in_bounds(last.end)) =>
        (last.result <=>
            \/ is_legal_move(board, Piece(last.piece.color, ROOK), last.start, last.end)
            \/ is_legal_move(board, Piece(last.piece.color, BISHOP), last.start, last.end))

\* A queen makes a move that is legal for a bishop and not for a rook.
C14_Witness ==
    /\ LegalCalled
    /\ last.piece.kind = QUEEN
    /\ last.result
    /\ is_legal_move(board, Piece(last.piece.color, BISHOP), last.start, last.end)
    /\ ~is_legal_move(board, Piece(last.piece.color, ROOK), last.start, last.end)

\* The walk of _is_path_clear comes to end.
ReachesEnd(walk) == walk.clear /\ ~walk.diverges

\* C17: is_legal_move starts the walk of _is_path_clear only between two
\* distinct squares of a common rank, file or diagonal; the walk then ends, on
\* end or on an occupied square, after at most 6 squares, fewer than the
\* distance from start to end. Between two distinct squares that are not so
\* aligned the walk would never come to end, and is never started.
C17_PathWalkTerminates ==
    LegalCalled =>
        LET walk == PathWalkFrom(board, last.start, last.end)
            started == calls_is_path_clear(board, last.piece, last.start, last.end)
            aligned == OnDiagonal(last.start, last.end) \/ OnRankOrFile(last.start, last.end)
            distance == Max(Abs(last.end[1] - last.start[1]),
                            Abs(last.end[2] - last.start[2]))
        IN  /\ started =>
                /\ last.start # last.end
                /\ aligned
                /\ ~walk.diverges
                /\ walk.steps <= 6
                /\ walk.steps < distance
                /\ walk.clear => walk.steps = distance - 1
            /\ (last.start # last.end /\ ~aligned) =>
                /\ ~started
                /\ ~ReachesEnd(walk)
                /\ ~last.result \/ last.piece.kind \notin {BISHOP, ROOK, QUEEN}

\* A rook crosses the whole board: the walk passes 6 empty squares.
C17_Witness ==
    /\ LegalCalled
    /\ last.piece.kind = ROOK
    /\ calls_is_path_clear(board, last.piece, last.start, last.end)
    /\ PathWalkFrom(board, last.start, last.end).steps = 6
    /\ last.result

----------------------------------------------------------------------------
(* Further properties of Board.move_piece (BoardSpec) *)

\* C13: a move is_legal_move accepts never ends on a piece of the mover's
\* colour, so move_piece never fails with the own-piece error and a
\* successful move never removes a piece of the mover's colour.
C13_OwnPieceCaptureUnreachable ==
    (MoveCalled /\ last.piece # None) =>
        /\ is_legal_move(last.preBoard, last.piece, last.start, last.end)
              => (last.target = None \/ last.target.color # last.piece.color)
        /\ last.err # ErrOwnPiece
        /\ last.ok => (last.target = None \/ last.target.color # last.piece.color)

\* A rook's move onto the piece of its own colour next to it is refused as an
\* illegal move.
C13_Witness ==
    /\ MoveCalled
    /\ last.piece.kind = ROOK
    /\ in_bounds(last.end)
    /\ OnRankOrFile(last.start, last.end)
    /\ Between(last.start, last.end) = {}
    /\ last.target # None
    /\ last.target.color = last.piece.color
    /\ ~last.ok
    /\ last.err = ErrIllegalMove

\* The number of pieces on a placement.
PieceCount(b) == Cardinality({sq \in Squares : b[sq] # None})

\* C18: a successful move_piece changes no square other than start and end;
\* the number of pieces drops by one when end was occupied and stays the same
\* otherwise; no call of move_piece makes it grow.
C18_MoveFrame ==
    MoveCalled =>
        LET before == PieceCount(last.preBoard)
            after == PieceCount(board)
        IN  /\ last.ok =>
                  /\ \A sq \in Squares \ {last.start, last.end} :
                        board[sq] = last.preBoard[sq]
                  /\ after = before - (IF last.target # None THEN 1 ELSE 0)
            /\ after <= before

\* A capture: one piece fewer and the capturing piece on end.
C18_Witness ==
    /\ MoveCalled
    /\ last.ok
    /\ last.target # None
    /\ PieceCount(board) = PieceCount(last.preBoard) - 1
    /\ board[last.end].color = last.piece.color

----------------------------------------------------------------------------
(* game.py: notation *)

\* A text is a sequence of one-character strings.
LOWERCASE == <<"a", "b", "c", "d", "e", "f", "g", "h", "i", "j", "k", "l", "m",
               "n", "o", "p", "q", "r", "s", "t", "u", "v", "w", "x", "y", "z">>
UPPERCASE == <<"A", "B", "C", "D", "E", "F", "G", "H", "I", "J", "K", "L", "M",
               "N", "O", "P", "Q", "R", "S", "T", "U", "V", "W", "X", "Y", "Z">>
Whitespace == {" ", "\t", "\n"}

Range(seq) == {seq[i] : i \in 1..Len(seq)}

IndexOf(seq, x) == CHOOSE i \in 1..Len(seq) : seq[i] = x

UpperSet == Range(UPPERCASE)
LowerSet == Range(LOWERCASE)
FileSet == Range(FILES)
RankDigitSet == Range(RANK_DIGITS)

\* str.lower
LowerChar(ch) == IF ch \in UpperSet THEN LOWERCASE[IndexOf(UPPERCASE, ch)] ELSE ch
Lower(text) == [i \in 1..Len(text) |-> LowerChar(text[i])]

\* str.strip
RECURSIVE LStrip(_)
LStrip(text) ==
    IF text # <<>> /\ Head(text) \in Whitespace THEN LStrip(Tail(text)) ELSE text
RECURSIVE RStrip(_)
RStrip(text) ==
    IF text # <<>> /\ text[Len(text)] \in Whitespace
    THEN RStrip(SubSeq(text, 1, Len(text) - 1)) ELSE text
Strip(text) == RStrip(LStrip(text))

ErrInvalidSquare == "Invalid square name"
ErrNoPieceOn == "No piece on"
ErrWrongTurn == "It is not this colour to move"
ErrUnsupportedNotation == "Unsupported notation"
ErrUnsupportedPromotion == "Unsupported promotion"

\* board.parse_square: ok is FALSE where it raises ValueError.
parse_square(name) ==
    IF Len(name) # 2 \/ name[1] \notin FileSet \/ name[2] \notin RankDigitSet
    THEN [ok |-> FALSE, square |-> <<-1, -1>>]
    ELSE [ok |-> TRUE,
          square |-> <<IndexOf(FILES, name[1]) - 1, IndexOf(RANK_DIGITS, name[2]) - 1>>]

\* board.square_name, for an in-bounds square.
square_name(square) == <<FILES[square[1] + 1], RANK_DIGITS[square[2] + 1]>>

\* A table of promotion letters with the bishop and the knight exchanged.
PromotionFromCharExchanged(char) ==
    IF char = "q" THEN [ok |-> TRUE, kind |-> QUEEN]
    ELSE IF char = "r" THEN [ok |-> TRUE, kind |-> ROOK]
    ELSE IF char = "b" THEN [ok |-> TRUE, kind |-> KNIGHT]
    ELSE IF char = "n" THEN [ok |-> TRUE, kind |-> BISHOP]
    ELSE [ok |-> FALSE, kind |-> NoPromotion]

\* game._promotion_from_char: ok is FALSE where it raises ValueError.
_promotion_from_char(char) ==
    IF char = "q" THEN [ok |-> TRUE, kind |-> QUEEN]
    ELSE IF char = "r" THEN [ok |-> TRUE, kind |-> ROOK]
    ELSE IF char = "b" THEN [ok |-> TRUE, kind |-> BISHOP]
    ELSE IF char = "n" THEN [ok |-> TRUE, kind |-> KNIGHT]
    ELSE [ok |-> FALSE, kind |-> NoPromotion]

\* game.Move
Move(start, end, promotion) == [start |-> start, end |-> end, promotion |-> promotion]

----------------------------------------------------------------------------
(* game.py: ChessGame *)

\* ChessGame(): a board in the initial position, WHITE to move, no history.
NewGame == [board |-> InitialPosition, turn |-> WHITE, history |-> <<>>]

\* The outcome of a call on a ChessGame: normal return or a raised
\* ValueError, and the fields the game is left with.
GameReturn(g) ==
    [ok |-> TRUE, err |-> "", board |-> g.board, turn |-> g.turn, history |-> g.history]
GameRaise(g, message) ==
    [ok |-> FALSE, err |-> message, board |-> g.board, turn |-> g.turn,
     history |-> g.history]

GameOf(res) == [board |-> res.board, turn |-> res.turn, history |-> res.history]

\* An apply_move that records the move and passes the turn before the Board
\* has accepted the move.
ApplyMoveRecordingFirst(g, move) ==
    LET start == parse_square(move.start)
        end == parse_square(move.end)
    IN  IF ~start.ok \/ ~end.ok THEN GameRaise(g, ErrInvalidSquare)
        ELSE LET piece == get_piece(g.board, start.square)
                 after == [g EXCEPT !.history = Append(g.history, move),
                                    !.turn = opponent(g.turn)]
             IN  IF piece = None THEN GameRaise(g, ErrNoPieceOn)
                 ELSE IF piece.color # g.turn THEN GameRaise(g, ErrWrongTurn)
                 ELSE LET res == move_piece(g.board, start.square, end.square,
                                            move.promotion)
                      IN  IF res.ok THEN GameReturn([after EXCEPT !.board = res.board])
                          ELSE GameRaise([after EXCEPT !.board = res.board], res.err)

\* An apply_move that does not look at whose turn it is.
ApplyMoveAnyColour(g, move) ==
    LET start == parse_square(move.start)
        end == parse_square(move.end)
    IN  IF ~start.ok \/ ~end.ok THEN GameRaise(g, ErrInvalidSquare)
        ELSE LET piece == get_piece(g.board, start.square)
             IN  IF piece = None THEN GameRaise(g, ErrNoPieceOn)
                 ELSE LET res == move_piece(g.board, start.square, end.square,
                                            move.promotion)
                      IN  IF res.ok
                          THEN GameReturn([board |-> res.board,
                                           turn |-> opponent(g.turn),
                                           history |-> Append(g.history, move)])
                          ELSE GameRaise([g EXCEPT !.board = res.board], res.err)

apply_move(g, move) ==
    LET start == parse_square(move.start)
        end == parse_square(move.end)
    IN  IF ~start.ok \/ ~end.ok THEN GameRaise(g, ErrInvalidSquare)
        ELSE LET piece == get_piece(g.board, start.square)
             IN  IF piece = None THEN GameRaise(g, ErrNoPieceOn)
                 ELSE IF piece.color # g.turn THEN GameRaise(g, ErrWrongTurn)
                 ELSE LET res == move_piece(g.board, start.square, end.square,
                                            move.promotion)
                      IN  IF res.ok
                          THEN GameReturn([board |-> res.board,
                                           turn |-> opponent(g.turn),
                                           history |-> Append(g.history, move)])
                          ELSE GameRaise([g EXCEPT !.board = res.board], res.err)

\* An apply_sanless that hands the promotion letter on without checking it:
\* any letter of a piece kind is taken.
ApplySanlessAnyLetter(g, text) ==
    LET notation == Lower(Strip(text))
    IN  IF Len(notation) \notin {4, 5} THEN GameRaise(g, ErrUnsupportedNotation)
        ELSE LET letter == IF Len(notation) = 5 THEN notation[5] ELSE ""
                 promotion == IF letter = "" THEN NoPromotion
                              ELSE IF letter = "k" THEN KING
                              ELSE IF letter = "p" THEN PAWN
                              ELSE _promotion_from_char(letter).kind
             IN  IF letter # "" /\ promotion = NoPromotion
                 THEN GameRaise(g, ErrUnsupportedPromotion)
                 ELSE apply_move(g, Move(SubSeq(notation, 1, 2), SubSeq(notation, 3, 4),
                                         promotion))

\* ChessGame.apply_sanless, the spec's apply_notation.
apply_sanless(g, text) ==
    LET notation == Lower(Strip(text))
    IN  IF Len(notation) \notin {4, 5} THEN GameRaise(g, ErrUnsupportedNotation)
        ELSE LET promotion == IF Len(notation) = 5
                              THEN _promotion_from_char(notation[5])
                              ELSE [ok |-> TRUE, kind |-> NoPromotion]
             IN  IF ~promotion.ok THEN GameRaise(g, ErrUnsupportedPromotion)
                 ELSE apply_move(g, Move(SubSeq(notation, 1, 2), SubSeq(notation, 3, 4),
                                         promotion.kind))

\* The for loop of load_moves from position i: `applied` counts the strings
\* applied so far; the first failure ends the loop and is the call's failure.
RECURSIVE LoadFrom(_, _, _)
LoadFrom(g, moves, i) ==
    IF i > Len(moves)
    THEN [ok |-> TRUE, err |-> "", board |-> g.board, turn |-> g.turn,
          history |-> g.history, applied |-> i - 1]
    ELSE LET res == apply_sanless(g, moves[i])
         IN  IF res.ok THEN LoadFrom(GameOf(res), moves, i + 1)
             ELSE [ok |-> FALSE, err |-> res.err, board |-> res.board, turn |-> res.turn,
                   history |-> res.history, applied |-> i - 1]

\* A loop that skips a string that fails and goes on with the next one.
RECURSIVE LoadSkipping(_, _, _, _)
LoadSkipping(g, moves, i, failed) ==
    IF i > Len(moves)
    THEN [ok |-> failed = 0, err |-> IF failed = 0 THEN "" ELSE ErrIllegalMove,
          board |-> g.board, turn |-> g.turn, history |-> g.history,
          applied |-> IF failed = 0 THEN Len(moves) ELSE failed - 1]
    ELSE LET res == apply_sanless(g, moves[i])
         IN  IF res.ok THEN LoadSkipping(GameOf(res), moves, i + 1, failed)
             ELSE LoadSkipping(g, moves, i + 1, IF failed = 0 THEN i ELSE failed)

LoadMovesSkipping(g, moves) == LoadSkipping(g, moves, 1, 0)

\* A load that puts the game back as it was when a string fails.
LoadMovesRollingBack(g, moves) ==
    LET res == LoadFrom(g, moves, 1)
    IN  IF res.ok THEN res
        ELSE [ok |-> FALSE, err |-> res.err, board |-> g.board, turn |-> g.turn,
              history |-> g.history, applied |-> res.applied]

\* ChessGame.load_moves
load_moves(g, moves) == LoadFrom(g, moves, 1)

----------------------------------------------------------------------------
(* A ChessGame: set up from a fresh game, then a bounded number of calls *)

\* Games played from a fresh game before the calls under study: none, one
\* that brings a white pawn to b7 with WHITE to move, and one that brings a
\* black pawn to b2 with BLACK to move.
WhiteToPromote ==
    << <<"a","2","a","4">>, <<"b","7","b","5">>, <<"a","4","b","5">>, <<"b","8","a","6">>,
       <<"b","5","b","6">>, <<"a","6","b","4">>, <<"b","6","b","7">>, <<"h","7","h","6">> >>
BlackToPromote ==
    << <<"b","2","b","4">>, <<"a","7","a","5">>, <<"b","1","a","3">>, <<"a","5","b","4">>,
       <<"a","3","b","5">>, <<"b","4","b","3">>, <<"h","2","h","3">>, <<"b","3","b","2">>,
       <<"h","3","h","4">> >>
Openings == {<<>>, WhiteToPromote, BlackToPromote}

Init ==
    \E opening \in Openings :
        LET res == load_moves(NewGame, opening)
        IN  /\ res.ok
            /\ board = res.board
            /\ turn = res.turn
            /\ history = res.history
            /\ last = NoCall
            /\ calls = 0
            /\ applied = res.applied
            /\ cli = NoMain

\* The fields of the game.
Game == [board |-> board, turn |-> turn, history |-> history]

\* Square names on the files a..FILES[MaxGameFile + 1], and three malformed ones.
GameFileChars == {FILES[i] : i \in 1..(MaxGameFile + 1)}
SquareNames == {<<f, r>> : f \in GameFileChars, r \in Range(RANK_DIGITS)}
BadNames == {<<"i", "1">>, <<"a">>}

\* The promotions of the Move values handed to apply_move: none, one kind a
\* pawn may take and the two it may not.
MovePromotions == {NoPromotion, KNIGHT, KING, PAWN}

MoveInputs ==
    {Move(s, e, p) : s \in SquareNames \cup BadNames, e \in SquareNames \cup BadNames,
                     p \in MovePromotions}

\* Coordinate notation with and without a promotion letter ...
Suffixes == {<<>>, <<"q">>, <<"n">>, <<"k">>}
PlainTexts == {s \o e \o suffix : s \in SquareNames, e \in SquareNames, suffix \in Suffixes}

\* ... in capitals between white space, for the pawns' starting ranks ...
UpperChar(ch) == IF ch \in LowerSet THEN UPPERCASE[IndexOf(LOWERCASE, ch)] ELSE ch
Decorated(text) == <<" ">> \o [i \in 1..Len(text) |-> UpperChar(text[i])] \o <<"\n">>
DecoratedTexts ==
    {Decorated(s \o e \o suffix) :
        s \in {n \in SquareNames : n[2] \in {"2", "7"}}, e \in SquareNames,
        suffix \in {<<>>}}

\* ... and texts that are no coordinate notation.
MalformedTexts ==
    { <<>>, <<" ">>, <<"a","2","a">>, <<"i","n","v","a","l","i","d">>,
      <<"a","2","a","4","q","q">>, <<"i","9","a","1">>, <<"a","2","i","9">>,
      <<"a","2","a","4","x">>, <<"a","2"," ","a","4">> }

\* ... the moves of a pawn onto the first and the last rank followed by a
\* letter, small or capital, of each kind of piece ...
PromotionMoves ==
    { <<"b","7","b","8">>, <<"b","7","a","8">>, <<"b","2","b","1">>, <<"b","2","a","1">> }
PromotionLetters == {"r", "b", "p", "Q", "R", "B", "N", "K", "P"}
PromotionTexts == {body \o <<letter>> : body \in PromotionMoves, letter \in PromotionLetters}

TextInputs == PlainTexts \cup DecoratedTexts \cup MalformedTexts \cup PromotionTexts

\* The strings batches are made of.
LoadTexts ==
    { <<"a","2","a","4">>, <<"b","7","b","5">>, <<"a","4","b","5">>,
      <<"b","7","b","8">>, <<"b","2","a","1","n">>,
      <<"i","n","v","a","l","i","d">> }

BatchInputs == UNION {[1..n -> LoadTexts] : n \in 0..MaxBatch}

Pre == [board |-> board, turn |-> turn, history |-> history]

\* What a call leaves in `last`: the operation, whether it returned or raised
\* and with which message, and the game as it was before the call. For
\* apply_move also whether both names of the move decode to squares, the
\* piece found on the start square (None when there is none or the name is
\* malformed) and whether the Board holds the move legal for that piece; for
\* apply_sanless the fifth character of the text as written, "" for a text
\* that is not five characters long between white space; for load_moves the
\* batch and the number of strings applied.
Decodes(move) == parse_square(move.start).ok /\ parse_square(move.end).ok

StartPiece(g, move) ==
    LET start == parse_square(move.start)
    IN  IF start.ok THEN get_piece(g.board, start.square) ELSE None

SuffixOf(text) == IF Len(Strip(text)) = 5 THEN Strip(text)[5] ELSE ""

BoardHoldsLegal(g, move) ==
    LET start == parse_square(move.start)
        end == parse_square(move.end)
    IN  /\ start.ok
        /\ end.ok
        /\ get_piece(g.board, start.square) # None
        /\ is_legal_move(g.board, get_piece(g.board, start.square), start.square,
                         end.square)

ApplyMove(move) ==
    LET res == apply_move(Game, move)
    IN  /\ board' = res.board
        /\ turn' = res.turn
        /\ history' = res.history
        /\ last' = [op |-> "apply_move", ok |-> res.ok, err |-> res.err,
                    decoded |-> Decodes(move),
                    piece |-> StartPiece(Game, move),
                    legal |-> BoardHoldsLegal(Game, move), pre |-> Pre]
        /\ calls' = calls + 1
        /\ applied' = applied + (IF res.ok THEN 1 ELSE 0)
        /\ UNCHANGED cli

ApplySanless(text) ==
    LET res == apply_sanless(Game, text)
    IN  /\ board' = res.board
        /\ turn' = res.turn
        /\ history' = res.history
        /\ last' = [op |-> "apply_sanless", ok |-> res.ok, err |-> res.err,
                    suffix |-> SuffixOf(text), pre |-> Pre]
        /\ calls' = calls + 1
        /\ applied' = applied + (IF res.ok THEN 1 ELSE 0)
        /\ UNCHANGED cli

LoadMoves(moves) ==
    LET res == load_moves(Game, moves)
    IN  /\ board' = res.board
        /\ turn' = res.turn
        /\ history' = res.history
        /\ last' = [op |-> "load_moves", ok |-> res.ok, err |-> res.err,
                    moves |-> moves, applied |-> res.applied, pre |-> Pre]
        /\ calls' = calls + 1
        /\ applied' = applied + res.applied
        /\ UNCHANGED cli

Next ==
    \/ calls < MaxCalls /\ \E move \in MoveInputs : ApplyMove(move)
    \/ calls < MaxCalls /\ \E text \in TextInputs : ApplySanless(text)
    \/ calls < MaxCalls /\ \E moves \in BatchInputs : LoadMoves(moves)

Spec == Init /\ [][Next]_vars

\* A game driven through notation only: apply_sanless and load_moves.
NotationNext ==
    \/ calls < MaxCalls /\ \E text \in TextInputs : ApplySanless(text)
    \/ calls < MaxCalls /\ \E moves \in BatchInputs : LoadMoves(moves)

NotationSpec == Init /\ [][NotationNext]_vars

----------------------------------------------------------------------------
(* Properties of the ChessGame (Spec) *)

GameOps == {"apply_move", "apply_sanless", "load_moves"}

IsPrefix(s, t) == Len(s) <= Len(t) /\ SubSeq(t, 1, Len(s)) = s

\* C2: the length of the history is the number of successful applications,
\* WHITE is to move when it is even and BLACK when it is odd, and the history
\* before a call is a prefix of the history after it.
C2_TurnAlternates ==
    /\ Len(history) = applied
    /\ turn = (IF applied % 2 = 0 THEN WHITE ELSE BLACK)
    /\ last.op \in GameOps => IsPrefix(last.pre.history, history)

\* A call has failed right after the first move of a fresh game was applied.
C2_Witness ==
    /\ calls = 2
    /\ last.op = "apply_sanless"
    /\ ~last.ok
    /\ Len(history) = 1
    /\ turn = BLACK

\* C3: a failed apply_move leaves turn and history as they were, a successful
\* one passes the turn and appends one move; a move from a square to a square
\* of a piece that is not of the colour to move fails with the wrong-turn
\* error, legal or not for the Board, and leaves board, turn and history as
\* they were.
C3_FailedApplyMoveKeepsTurn ==
    last.op = "apply_move" =>
        /\ ~last.ok => (turn = last.pre.turn /\ history = last.pre.history)
        /\ last.ok => /\ turn = opponent(last.pre.turn)
                      /\ Len(history) = Len(last.pre.history) + 1
        /\ (last.decoded /\ last.piece # None /\ last.piece.color # last.pre.turn) =>
              /\ ~last.ok
              /\ last.err = ErrWrongTurn
              /\ Game = last.pre

\* A move the Board holds legal was refused because it was the other
\* colour's turn.
C3_Witness ==
    /\ last.op = "apply_move"
    /\ last.err = ErrWrongTurn
    /\ last.legal
    /\ last.piece.color = BLACK
    /\ turn = WHITE

\* C4: a failed apply_sanless leaves board, turn and history as they were.
C4_ApplyNotationAtomicOnFailure ==
    (last.op = "apply_sanless" /\ ~last.ok) => Game = last.pre

\* A notation was refused by the Board after a first move had been applied.
C4_Witness ==
    /\ last.op = "apply_sanless"
    /\ ~last.ok
    /\ last.err = ErrIllegalMove
    /\ calls = 2
    /\ Len(history) = 1

\* The move a notation string stands for.
MoveOfText(text) ==
    LET notation == Lower(Strip(text))
    IN  Move(SubSeq(notation, 1, 2), SubSeq(notation, 3, 4),
             IF Len(notation) = 5 THEN _promotion_from_char(notation[5]).kind
             ELSE NoPromotion)

\* C5: load_moves applies the strings in the order given; when the k-th one
\* fails the call fails, the moves of the k-1 strings before it have been
\* appended in order and nothing else: no string after the k-th is applied.
C5_LoadMovesFailFast ==
    last.op = "load_moves" =>
        /\ last.applied <= Len(last.moves)
        /\ last.ok <=> last.applied = Len(last.moves)
        /\ history = last.pre.history
                       \o [i \in 1..last.applied |-> MoveOfText(last.moves[i])]
        /\ ~last.ok => ~apply_sanless(Game, last.moves[last.applied + 1]).ok

\* The first of two strings failed and the second, which the game would have
\* accepted, was not applied.
C5_Witness ==
    /\ last.op = "load_moves"
    /\ ~last.ok
    /\ last.applied = 0
    /\ Len(last.moves) = 2
    /\ apply_sanless(Game, last.moves[2]).ok
    /\ history = last.pre.history

\* C6, as claimed: a load_moves that fails leaves board, turn and history as
\* they were before the call.
C6_LoadMovesAllOrNothing ==
    (last.op = "load_moves" /\ ~last.ok) => Game = last.pre

\* The game reached by applying the strings one after the other.
RECURSIVE AppliedInOrder(_, _)
AppliedInOrder(g, texts) ==
    IF texts = <<>> THEN g
    ELSE AppliedInOrder(GameOf(apply_sanless(g, Head(texts))), Tail(texts))

\* C6, amended: load_moves succeeds with every string applied, or fails at the
\* first string that fails and leaves the game as it was after the strings
\* before that one were applied (as before the call only when there is none).
C6_LoadMovesKeepsAppliedPrefix ==
    last.op = "load_moves" =>
        /\ last.ok => last.applied = Len(last.moves)
        /\ Game = AppliedInOrder(last.pre, SubSeq(last.moves, 1, last.applied))
        /\ (~last.ok /\ last.applied = 0) => Game = last.pre

\* A batch failed on its second string and the move of the first is kept.
C6_Witness ==
    /\ last.op = "load_moves"
    /\ ~last.ok
    /\ last.applied = 1
    /\ history = Append(last.pre.history, MoveOfText(last.moves[1]))
    /\ board # last.pre.board

----------------------------------------------------------------------------
(* Promotion and history of the ChessGame *)

\* The move appended last to the history, its squares and the piece it moved.
LastMove == history[Len(history)]
LastStart == parse_square(LastMove.start).square
LastEnd == parse_square(LastMove.end).square
LastMoved == last.pre.board[LastStart]

\* The kind a promotion letter names.
KindNamed(letter) ==
    CASE letter = "q" -> QUEEN
      [] letter = "r" -> ROOK
      [] letter = "b" -> BISHOP
      [] letter = "n" -> KNIGHT
      [] OTHER -> NoPromotion

\* C12: after a successful apply_sanless that moved a pawn onto rank-index 0
\* or 7 the destination holds a QUEEN of the pawn's colour when the notation
\* has no fifth character, and the kind named by the fifth character, small or
\* capital, when it is one of q, r, b, n; a fifth character p or k makes the
\* call fail with the unsupported-promotion error.
C12_PromotionThroughNotation ==
    last.op = "apply_sanless" =>
        /\ (last.ok /\ LastMoved.kind = PAWN /\ LastEnd[2] \in {0, 7}) =>
              /\ last.suffix = "" \/ LowerChar(last.suffix) \in {"q", "r", "b", "n"}
              /\ board[LastEnd] =
                    Piece(LastMoved.color,
                          IF last.suffix = "" THEN QUEEN
                          ELSE KindNamed(LowerChar(last.suffix)))
        /\ LowerChar(last.suffix) \in {"p", "k"} =>
              /\ ~last.ok
              /\ last.err = ErrUnsupportedPromotion

\* A black pawn takes on the first rank and becomes the knight named by a
\* capital letter.
C12_Witness ==
    /\ last.op = "apply_sanless"
    /\ last.ok
    /\ last.suffix = "N"
    /\ LastMoved = Piece(BLACK, PAWN)
    /\ LastEnd[2] = 0
    /\ last.pre.board[LastEnd] # None
    /\ board[LastEnd] = Piece(BLACK, KNIGHT)

\* C19 (NotationSpec): whatever notation calls were made on a game started
\* fresh, no pawn stands on rank-index 0 or on rank-index 7.
C19_NoPawnOnEndRanks ==
    \A sq \in Squares : sq[2] \in {0, BOARD_SIZE - 1} => board[sq].kind # PAWN

\* A black pawn has just moved onto the first rank, where a black queen stands.
C19_Witness ==
    /\ last.op \in {"apply_sanless", "load_moves"}
    /\ Len(history) > Len(last.pre.history)
    /\ last.pre.board[LastStart] = Piece(BLACK, PAWN)
    /\ LastEnd[2] = 0
    /\ board[LastEnd] = Piece(BLACK, QUEEN)

\* The recorded moves applied in order with apply_move, and whether each of
\* them was accepted.
RECURSIVE Replay(_, _)
Replay(g, moves) ==
    IF moves = <<>> THEN GameReturn(g)
    ELSE LET res == apply_move(g, Head(moves))
         IN  IF res.ok THEN Replay(GameOf(res), Tail(moves)) ELSE res

\* C20: the history applied move by move to a fresh game is accepted at every
\* step and gives the board and the turn of the game.
C20_HistoryReplays ==
    LET replayed == Replay(NewGame, history)
    IN  /\ replayed.ok
        /\ replayed.board = board
        /\ replayed.turn = turn

----------------------------------------------------------------------------
(* cli.py: main *)

\* Piece.symbol: the kind's letter, small for a black piece.
symbol(piece) == IF piece.color = WHITE THEN piece.kind ELSE LowerChar(piece.kind)

\* Board.render: a line per rank from the last to the first, the rank's digit
\* and a symbol or a dot per square, then the line of the files.
render(b) ==
    [i \in 1..BOARD_SIZE |->
        LET rank == BOARD_SIZE - i
        IN  <<RANK_DIGITS[rank + 1]>> \o
            [f \in 1..BOARD_SIZE |->
                IF get_piece(b, <<f - 1, rank>>) # None
                THEN symbol(get_piece(b, <<f - 1, rank>>)) ELSE "."]]
    \o << <<" ">> \o FILES >>

\* game.turn.name.title()
Title(color) == IF color = WHITE THEN "White" ELSE "Black"

ErrNotAList == "Move file must contain a JSON list"
Banner == << <<>>, <<"Enter moves in coordinate notation (e.g. e2e4). Type 'quit' to exit.">> >>
ErrorLine(message) == << <<"Error:", message>> >>
QuitWords == { <<"q","u","i","t">>, <<"e","x","i","t">> }

\* The command line: no --moves option, or the path of a file that holds a
\* JSON list of strings or some other JSON value.
NoMovesOption == [given |-> FALSE, list |-> TRUE, moves |-> <<>>]
MoveFile(moves) == [given |-> TRUE, list |-> TRUE, moves |-> moves]
FileWithoutList == [given |-> TRUE, list |-> FALSE, moves |-> <<>>]

\* load_moves_from_args and JsonFileMoveSource.load: [] without the option,
\* the list of the file, a ValueError for a file that holds no list.
load_moves_from_args(argv) ==
    IF ~argv.given THEN [ok |-> TRUE, err |-> "", moves |-> <<>>]
    ELSE IF ~argv.list THEN [ok |-> FALSE, err |-> ErrNotAList, moves |-> <<>>]
    ELSE [ok |-> TRUE, err |-> "", moves |-> argv.moves]

\* Where main stands after a step, what the step printed, the value main
\* returned if it did, the game, and the outcome of the core call of the step.
MainAt(pc, g, printed, returned, ok, err) ==
    [pc |-> pc, game |-> g, printed |-> printed, returned |-> returned,
     ok |-> ok, err |-> err, applied |-> 0]

\* main up to the first prompt: an exception of the loading is not caught.
main_start(argv) ==
    LET loaded == load_moves_from_args(argv)
        res == load_moves(NewGame, loaded.moves)
    IN  IF ~loaded.ok THEN MainAt("raised", NewGame, <<>>, <<>>, FALSE, loaded.err)
        ELSE IF loaded.moves # <<>> /\ ~res.ok
             THEN [MainAt("raised", GameOf(res), <<>>, <<>>, FALSE, res.err)
                      EXCEPT !.applied = res.applied]
        ELSE IF loaded.moves # <<>>
             THEN [MainAt("returned", GameOf(res), render(res.board), <<0>>, TRUE, "")
                      EXCEPT !.applied = res.applied]
        ELSE MainAt("prompt", NewGame, render(NewGame.board) \o Banner, <<>>, TRUE, "")

\* A loop body that lets the ValueError of the core through.
MainLoopStepWithoutTry(g, line) ==
    LET notation == Strip(line)
        res == apply_sanless(g, notation)
    IN  IF Lower(notation) \in QuitWords THEN MainAt("returned", g, <<>>, <<0>>, FALSE, "")
        ELSE IF notation = <<>> THEN MainAt("prompt", g, <<>>, <<>>, FALSE, "")
        ELSE IF ~res.ok THEN MainAt("raised", GameOf(res), <<>>, <<>>, FALSE, res.err)
        ELSE [MainAt("prompt", GameOf(res), render(res.board), <<>>, TRUE, "")
                 EXCEPT !.applied = 1]

\* The body of the loop for a line read: break, continue, or apply_sanless
\* with its ValueError caught and printed.
main_loop_step(g, line) ==
    LET notation == Strip(line)
        res == apply_sanless(g, notation)
    IN  IF Lower(notation) \in QuitWords THEN MainAt("returned", g, <<>>, <<0>>, FALSE, "")
        ELSE IF notation = <<>> THEN MainAt("prompt", g, <<>>, <<>>, FALSE, "")
        ELSE IF ~res.ok
             THEN MainAt("prompt", GameOf(res), ErrorLine(res.err), <<>>, FALSE, res.err)
        ELSE [MainAt("prompt", GameOf(res), render(res.board), <<>>, TRUE, "")
                 EXCEPT !.applied = 1]

\* The body of the loop at the end of the input: print() and break.
main_loop_eof(g) == MainAt("returned", g, << <<>> >>, <<0>>, FALSE, "")

----------------------------------------------------------------------------
(* The command line: main is started, then reads lines until it ends *)

ArgvInputs == {NoMovesOption, FileWithoutList} \cup {MoveFile(moves) : moves \in BatchInputs}

\* Lines that end the loop, blank lines, and lines handed to the core.
QuitLines ==
    { <<"q","u","i","t">>, <<"e","x","i","t">>, <<" ","Q","U","I","T","\n">>,
      <<"E","x","i","t">> }
BlankLines == { <<>>, <<" ","\t">> }
MoveLines ==
    LoadTexts \cup { <<" ","A","2","a","4","\n">>, <<"a","2","a","5">>,
                     <<"q","u","i","t","s">> }
LineInputs == QuitLines \cup BlankLines \cup MoveLines

\* The state of main after a step; the prompt is the one of the input call
\* main has come to.
Cli(step) ==
    [pc |-> step.pc,
     prompt |-> IF step.pc = "prompt" THEN Title(step.game.turn) ELSE "",
     printed |-> step.printed,
     returned |-> step.returned]

CliInit ==
    /\ board = NewGame.board
    /\ turn = NewGame.turn
    /\ history = NewGame.history
    /\ last = NoCall
    /\ calls = 0
    /\ applied = 0
    /\ cli = [NoMain EXCEPT !.pc = "start"]

\* main run from its start to the first prompt, or to its end.
MainStep(step, argv) ==
    /\ board' = step.game.board
    /\ turn' = step.game.turn
    /\ history' = step.game.history
    /\ last' = [op |-> "main", ok |-> step.ok, err |-> step.err, argv |-> argv,
                pre |-> Pre]
    /\ applied' = applied + step.applied
    /\ cli' = Cli(step)
    /\ UNCHANGED calls

Main(argv) == MainStep(main_start(argv), argv)

ReadLine(line) ==
    LET step == main_loop_step(Game, line)
    IN  /\ board' = step.game.board
        /\ turn' = step.game.turn
        /\ history' = step.game.history
        /\ last' = [op |-> "line", ok |-> step.ok, err |-> step.err, line |-> line,
                    prompt |-> cli.prompt, pre |-> Pre]
        /\ calls' = calls + 1
        /\ applied' = applied + step.applied
        /\ cli' = Cli(step)

ReadEof ==
    LET step == main_loop_eof(Game)
    IN  /\ last' = [op |-> "eof", ok |-> step.ok, err |-> step.err,
                    prompt |-> cli.prompt, pre |-> Pre]
        /\ cli' = Cli(step)
        /\ UNCHANGED <<board, turn, history, calls, applied>>

CliNext ==
    \/ cli.pc = "start" /\ \E argv \in ArgvInputs : Main(argv)
    \/ cli.pc = "prompt" /\ calls < MaxLines /\ \E line \in LineInputs : ReadLine(line)
    \/ cli.pc = "prompt" /\ ReadEof

CliSpec == CliInit /\ [][CliNext]_vars

----------------------------------------------------------------------------
(* Properties of the command line (CliSpec) *)

LineRead == last.op = "line"

\* C15: a line the core rejects prints an error, leaves the game as it was and
\* brings back the prompt of the same colour; a line the core accepts prints
\* the board as it now is and brings the prompt of the other colour; a blank
\* line prints nothing; the loop ends, with main returning 0, on a quit or exit
\* line and at the end of the input and on nothing else.
C15_LoopContinuesOnError ==
    /\ (LineRead /\ last.line \in MoveLines /\ ~last.ok) =>
          /\ cli.pc = "prompt"
          /\ cli.printed = ErrorLine(last.err)
          /\ Game = last.pre
          /\ cli.prompt = last.prompt
    /\ (LineRead /\ last.line \in MoveLines /\ last.ok) =>
          /\ cli.pc = "prompt"
          /\ cli.printed = render(board)
          /\ Len(history) = Len(last.pre.history) + 1
          /\ cli.prompt = Title(opponent(last.pre.turn))
    /\ (LineRead /\ last.line \in BlankLines) =>
          /\ cli.pc = "prompt"
          /\ cli.printed = <<>>
          /\ Game = last.pre
    /\ (LineRead /\ last.line \in QuitLines) => cli.pc = "returned"
    /\ last.op = "eof" => cli.pc = "returned"
    /\ (last.op \in {"line", "eof"} /\ cli.pc # "prompt") =>
          /\ last.op = "eof" \/ last.line \in QuitLines
          /\ cli.pc = "returned"
          /\ cli.returned = <<0>>
          /\ Game = last.pre
    /\ cli.pc = "prompt" => cli.prompt = Title(turn)

\* After White's first move a line is rejected: an error is printed and the
\* prompt names Black again.
C15_Witness ==
    /\ LineRead
    /\ last.line \in MoveLines
    /\ ~last.ok
    /\ Len(history) = 1
    /\ cli.pc = "prompt"
    /\ cli.prompt = "Black"
    /\ last.prompt = "Black"
    /\ cli.printed = ErrorLine(ErrIllegalMove)

\* C16: whenever main finishes, it finishes by returning 0.
C16_MainReturnsZero ==
    cli.pc \in {"returned", "raised"} =>
        /\ cli.pc = "returned"
        /\ cli.returned = <<0>>

====
